---- MODULE Spec2Model ----
(***************************************************************************)
(* A model of cyst: files encrypted under a disjunction (options) of       *)
(* conjunctions (factors).                                                 *)
(*                                                                         *)
(*   header.rs  Header::new / prompt_option / prompt_factor build the      *)
(*              header and wrap the primary key once per option;           *)
(*              Header::to_decryptor unwraps it; Header::to_bytes and      *)
(*              Header::from_file frame the header with a length prefix.   *)
(*   file.rs    encrypt_file / decrypt_file stream the payload through     *)
(*              the STREAM construction in buffers of BUF_SIZE bytes.      *)
(*                                                                         *)
(* Byte strings are kept symbolically, as sequences of runs: a run         *)
(* [s, id, lo, hi] stands for the bytes lo..hi-1 of a source.  The sources *)
(* are "P" (the input file), "Z" (the zeroed buffer of file.rs:35/75),     *)
(* "J" (bytes of an altered file that nobody sealed) and "C" (ciphertext   *)
(* and tag of the id-th chunk the encryptor sealed).  The cryptography of  *)
(* the external crates (argon2, chacha20poly1305) is symbolic: a key       *)
(* derivation is the record of its inputs, a sealed box opens only under   *)
(* the key, nonce, counter and last-block flag it was sealed with, and     *)
(* only when it is presented whole.                                        *)
(*                                                                         *)
(* Two specifications share the state: SpecHeader runs Header::new and     *)
(* then Header::to_decryptor on the header it built (or on an edited copy: *)
(* the header is not authenticated); SpecFile starts where Header::new     *)
(* returned and runs encrypt_file, the transport of the file, and          *)
(* Header::from_file, Header::to_decryptor and decrypt_file on it.         *)
(***************************************************************************)
EXTENDS Integers, Sequences, FiniteSets, TLC

\* ------------------------------------------------------------ constants

\* file.rs:14  const BUF_SIZE: u64 = 4096
BUF_SIZE == 4096

\* The Poly1305 tag ChaCha20Poly1305 appends to every sealed box.
TAG_SIZE == 16

\* Header::to_bytes / from_file: the u64 length prefix (header.rs:114, 124).
PREFIX_SIZE == 8

\* Bounds of the model.
\* The payload is up to MaxChunks buffers long (plus a partial one).
MaxChunks == 3
\* Reads that return fewer bytes than asked for, per run of a loop.
MaxShortReads == 1
\* Header::new: options prompted for, and factors prompted for in all.
MaxOptions == 2
MaxFactors == 3

\* ------------------------------------------------------------ byte runs

Run(s, id, lo, hi) == [s |-> s, id |-> id, lo |-> lo, hi |-> hi]

\* n bytes of source s (none when n = 0).
Bytes(s, id, n) == IF n = 0 THEN <<>> ELSE <<Run(s, id, 0, n)>>

RECURSIVE BLen(_)
BLen(b) == IF b = <<>> THEN 0 ELSE (Head(b).hi - Head(b).lo) + BLen(Tail(b))

RECURSIVE Drop(_, _)
Drop(b, n) ==
  IF n = 0 \/ b = <<>> THEN b
  ELSE LET r == Head(b)
           l == r.hi - r.lo
       IN IF n >= l THEN Drop(Tail(b), n - l)
          ELSE <<[r EXCEPT !.lo = r.lo + n]>> \o Tail(b)

RECURSIVE Take(_, _)
Take(b, n) ==
  IF n = 0 \/ b = <<>> THEN <<>>
  ELSE LET r == Head(b)
           l == r.hi - r.lo
       IN IF n >= l THEN <<r>> \o Take(Tail(b), n - l)
          ELSE <<[r EXCEPT !.hi = r.lo + n]>>

\* Adjacent runs that continue one another are one run.
RECURSIVE Norm(_)
Norm(b) ==
  IF Len(b) < 2 THEN b
  ELSE LET r1 == b[1]
           r2 == b[2]
       IN IF r1.s = r2.s /\ r1.id = r2.id /\ r1.hi = r2.lo
          THEN Norm(<<[r1 EXCEPT !.hi = r2.hi]>> \o Tail(Tail(b)))
          ELSE <<r1>> \o Norm(Tail(b))

Cat(a, b) == Norm(a \o b)
Slice(b, from, n) == Take(Drop(b, from), n)

Min(a, b) == IF a < b THEN a ELSE b

\* ------------------------------------------------- symbolic cryptography

\* A secret is a sequence of byte tokens.  A positive token is a byte the
\* user typed; the token -n stands for the n-th block OsRng produced in the
\* run, and 0 for a block that came from somewhere else (a different
\* keyfile, say).
RandomBlock(n) == <<-n>>
OtherBlock == <<0>>

\* Argon2::default().hash_password_into(password, salt, out): the derived
\* key is determined by the password and the salt, and by nothing else.
Argon2(password, salt) == [pw |-> password, salt |-> salt]

\* ChaCha20Poly1305 cipher.encrypt(nonce, plaintext): plaintext and tag.
AeadSeal(key, nonce, plaintext) == [k |-> key, n |-> nonce, pt |-> plaintext]

\* What a sealed box becomes when a byte of it is changed.
Garbled(box) == [box EXCEPT !.k = Argon2(<<>>, <<>>)]

\* cipher.decrypt(nonce, ciphertext): the plaintext under the sealing key and
\* nonce, an error otherwise.
AeadOpen(key, nonce, box) ==
  IF box.k = key /\ box.n = nonce
  THEN [ok |-> TRUE, pt |-> box.pt]
  ELSE [ok |-> FALSE, pt |-> <<>>]

\* The STREAM construction (EncryptorBE32): a chunk is sealed under the
\* stream's key with the nonce made of the 7-byte prefix, the 32-bit chunk
\* counter and the last-block flag.
StreamSeal(stream, last, plaintext) ==
  [key |-> stream.key, nonce |-> stream.nonce, ctr |-> stream.ctr,
   last |-> last, pt |-> plaintext]

\* The ciphertext of the id-th sealed chunk: its plaintext's length and a tag.
SealedBytes(id, chunk) == Bytes("C", id, BLen(chunk.pt) + TAG_SIZE)

\* decrypt_next / decrypt_last (DecryptorBE32) on a piece of the file: the
\* piece opens when it is, whole, a chunk sealed under the decryptor's key,
\* nonce prefix and counter with the same last-block flag.
StreamOpen(stream, last, piece, chunks) ==
  IF /\ Len(piece) = 1
     /\ piece[1].s = "C"
     /\ piece[1].id \in 1..Len(chunks)
     /\ piece[1].lo = 0
     /\ piece[1].hi = BLen(chunks[piece[1].id].pt) + TAG_SIZE
     /\ chunks[piece[1].id].key = stream.key
     /\ chunks[piece[1].id].nonce = stream.nonce
     /\ chunks[piece[1].id].ctr = stream.ctr
     /\ chunks[piece[1].id].last = last
  THEN [ok |-> TRUE, pt |-> chunks[piece[1].id].pt]
  ELSE [ok |-> FALSE, pt |-> <<>>]

\* ------------------------------------------------------------- factors

\* factors/mod.rs: get_factors(), the registry's keys.
Registry == {"Passphrase", "Ephemeral data", "Shamir secret sharing", "Keyfile"}

\* A factor name no build registers.
UnknownFactor == "X"

\* Strings in byte order, the order of sort() on names (header.rs:69, 155).
NameOrder ==
  <<"Ephemeral data", "Keyfile", "Passphrase", "Shamir secret sharing", "X",
    "a", "b">>

\* keys().collect() followed by sort().
SortedNames(names) == SelectSeq(NameOrder, LAMBDA n : n \in names)

\* What the user can type: option names, passphrases (the Shamir quorum is 2).
OptionNames == {"a", "b"}
Passphrases == {<<112>>, <<112, 113>>}
\* The URL the hosting service answers with (ephemeral.rs:41-43).
Url == <<117>>

\* An eight-byte little-endian integer (bincode's fixed-width lengths).
RECURSIVE LittleEndian(_, _)
LittleEndian(n, k) ==
  IF k = 0 THEN <<>> ELSE <<n % 256>> \o LittleEndian(n \div 256, k - 1)
U64LE(n) == LittleEndian(n, PREFIX_SIZE)

\* BoxedFactor::create (factor.rs:42-47) for each factor: the outcomes of
\* F::create, the data serialised with bincode.  rnd is the block OsRng
\* gives a factor that draws one.
CreateOutcomes(name, rnd) ==
  CASE name = "Passphrase" ->
         {[ok |-> TRUE, data |-> <<>>, key |-> p] : p \in Passphrases}
    [] name = "Keyfile" ->
         {[ok |-> TRUE, data |-> <<>>, key |-> rnd],
          [ok |-> FALSE, data |-> <<>>, key |-> <<>>]}
    [] name = "Shamir secret sharing" ->
         {[ok |-> TRUE, data |-> <<2>>, key |-> rnd],
          [ok |-> FALSE, data |-> <<>>, key |-> <<>>]}
    [] OTHER ->
         {[ok |-> TRUE, data |-> U64LE(Len(Url)) \o Url, key |-> rnd],
          [ok |-> FALSE, data |-> <<>>, key |-> <<>>]}

\* BoxedFactor::derive (factor.rs:49-52): the outcomes of F::derive.  made is
\* the key the factor's create returned; a passphrase is whatever the user
\* types now, a keyfile, a download or a set of shares may be the right
\* ones, other ones, or fail.
DeriveOutcomes(name, made) ==
  IF name = "Passphrase"
  THEN {[ok |-> TRUE, key |-> p] : p \in Passphrases}
  ELSE {[ok |-> TRUE, key |-> made], [ok |-> TRUE, key |-> OtherBlock],
        [ok |-> FALSE, key |-> <<>>]}

\* -------------------------------------------------------------- state

VARIABLES
  pc,           \* where main is
  err,          \* the anyhow error main returned with, [msg, arg]
  failed_at,    \* (history) the step that raised err
  rng,          \* (history) the blocks OsRng has produced so far
  \* Header::new
  primary_key,  \* header.rs:33
  stream_nonce, \* header.rs:34
  is_first,     \* header.rs:37
  options,      \* header.rs:38, the HashMap as a function on its keys
  prompts,      \* (history) option prompts so far
  asked,        \* (history) factor prompts so far
  po,           \* prompt_option's locals: name, is_first, factors, total_key
  added,        \* (history) per option name, the factors as the user added them
  dup,          \* (history) the user gave a name an earlier option has
  header,       \* the Header that Header::new returned
  encryptor,    \* the EncryptorBE32 it returned: key, nonce, ctr
  \* Header::to_decryptor
  dheader,      \* self
  sel,          \* the option chosen
  fi,           \* the position in option_data.factors
  total_key,    \* header.rs:78
  derived,      \* (history) the derive calls made: name, key
  kdf_in,       \* (history) the password given to Argon2 at header.rs:91
  decryptor,    \* the DecryptorBE32 returned
  \* encrypt_file
  payload,      \* the input file's length; its bytes are source "P"
  in_pos,       \* input.stream_position()
  buffer,       \* file.rs:35 / file.rs:75
  output,       \* the bytes written to the output file
  sealed,       \* the chunks the encryptor sealed, in order
  enc_calls,    \* (history) the calls on the encryptor: kind, len
  shorts,       \* (history) short reads so far in this loop
  \* the file as decrypt finds it, Header::from_file, decrypt_file
  disk,         \* [hdr: the header blob, avail: its bytes present, body: the rest]
  edit,         \* (history) what happened to the file on the way
  alloc,        \* (history) the size of the vec from_file allocated
  d_pos,        \* the position in disk.body
  plain,        \* the bytes decrypt_file wrote
  dec_calls,    \* (history) the calls on the decryptor: kind, len, ok
  created       \* the commands whose output path File::create has made

hvars == <<primary_key, stream_nonce, is_first, options, prompts, asked, po,
           added, dup, header, encryptor>>
tvars == <<dheader, sel, fi, total_key, derived, kdf_in, decryptor>>
evars == <<payload, in_pos, buffer, output, sealed, enc_calls, created>>
dvars == <<disk, edit, alloc, d_pos, plain, dec_calls>>
vars == <<pc, err, failed_at, rng, shorts, hvars, tvars, evars, dvars>>

NoErr == [msg |-> "", arg |-> ""]
Error(msg, arg) == [msg |-> msg, arg |-> arg]

\* ------------------------------------------------------ header.rs, data

\* struct OptionData (header.rs:139-148).
OptionData(salt, factors, nonce, ciphertext) ==
  [salt |-> salt, factors |-> factors, primary_key_nonce |-> nonce,
   primary_key_ciphertext |-> ciphertext]

\* HashMap::insert (header.rs:49): a later value replaces an earlier one
\* under the same key.
MapInsert(m, k, v) ==
  [n \in DOMAIN m \cup {k} |-> IF n = k THEN v ELSE m[n]]

EmptyMap == [n \in {} |-> 0]

\* factors.push((name.to_string(), data)) (header.rs:193).
PushFactor(factors, name, data) == Append(factors, <<name, data>>)

\* total_key.extend(key) (header.rs:86, 194).
ExtendKey(total, key) == total \o key

\* The option key: Argon2 over the factor keys and the salt
\* (header.rs:90-93, 202-205).
OptionKey(total, salt) == Argon2(total, salt)

\* (mutant) The option seals its salt in the primary key's place.
WrapOptionSalt(pk, factors, total, salt, nonce) ==
  OptionData(salt, factors, nonce, AeadSeal(Argon2(total, salt), nonce, salt))

\* prompt_option's tail (header.rs:201-220): the primary key sealed under the
\* option key.  salt and nonce are the two blocks OsRng gives it.
WrapOption(pk, factors, total, salt, nonce) ==
  OptionData(salt, factors, nonce, AeadSeal(OptionKey(total, salt), nonce, pk))

\* Header::to_decryptor's tail (header.rs:90-101): the primary key opened
\* with the option key made of the keys derived.
UnwrapOption(option_data, total) ==
  AeadOpen(OptionKey(total, option_data.salt), option_data.primary_key_nonce,
           option_data.primary_key_ciphertext)

\* Encryptor::from_aead / DecryptorBE32::from_aead (header.rs:55-56, 103-104).
Stream(key, nonce) == [key |-> key, nonce |-> nonce, ctr |-> 0]
NoStream == [key |-> <<>>, nonce |-> <<>>, ctr |-> 0]

\* (mutant) The factors visited from the last to the first.
FactorAtReversed(option_data, i) ==
  option_data.factors[Len(option_data.factors) + 1 - i]

\* The order in which to_decryptor visits an option's factors (header.rs:79).
FactorAt(option_data, i) == option_data.factors[i]

\* bincode's size of a Header (header.rs:110): a map is its count and its
\* entries, a string or a vector its length and its bytes, an array its
\* bytes.  A salt is 32 bytes, an option nonce 12, the sealed primary key
\* 32 and a tag, the stream nonce 7.
RECURSIVE FactorsLen(_)
FactorsLen(fs) ==
  IF fs = <<>> THEN 0
  ELSE PREFIX_SIZE + Len(Head(fs)[1]) + PREFIX_SIZE + Len(Head(fs)[2])
       + FactorsLen(Tail(fs))

OptionLen(name, o) ==
  PREFIX_SIZE + Len(name) + 32 + PREFIX_SIZE + FactorsLen(o.factors) + 12
  + PREFIX_SIZE + 32 + TAG_SIZE

RECURSIVE OptionsLen(_, _)
OptionsLen(m, names) ==
  IF names = {} THEN 0
  ELSE LET n == CHOOSE x \in names : TRUE
       IN OptionLen(n, m[n]) + OptionsLen(m, names \ {n})

HeaderLen(h) == PREFIX_SIZE + OptionsLen(h.options, DOMAIN h.options) + 7

\* ---------------------------------------------------------- Header::new

NoPo == [name |-> "", is_first |-> TRUE, factors |-> <<>>, total_key |-> <<>>]
NoHeader == [options |-> EmptyMap, nonce |-> <<>>]

\* Header::new up to its loop (header.rs:31-38): the primary key and the
\* stream nonce are OsRng's first two blocks.
InitHeaderNew ==
  /\ pc = "hn_loop"
  /\ err = NoErr
  /\ failed_at = ""
  /\ rng = 2
  /\ primary_key = RandomBlock(1)
  /\ stream_nonce = RandomBlock(2)
  /\ is_first = TRUE
  /\ options = EmptyMap
  /\ prompts = 0
  /\ asked = 0
  /\ po = NoPo
  /\ added = EmptyMap
  /\ dup = FALSE
  /\ header = NoHeader
  /\ encryptor = NoStream

InitToDecryptor ==
  /\ dheader = NoHeader
  /\ sel = ""
  /\ fi = 0
  /\ total_key = <<>>
  /\ derived = <<>>
  /\ kdf_in = <<>>
  /\ decryptor = NoStream

InitFileVars ==
  /\ payload = 0
  /\ in_pos = 0
  /\ buffer = <<>>
  /\ output = <<>>
  /\ sealed = <<>>
  /\ enc_calls = <<>>
  /\ shorts = 0
  /\ disk = [hdr |-> [len |-> 0, body |-> NoHeader, good |-> FALSE],
             avail |-> 0, body |-> <<>>]
  /\ edit = ""
  /\ alloc = 0
  /\ d_pos = 0
  /\ plain = <<>>
  /\ dec_calls = <<>>
  /\ created = {}

\* The loop of Header::new takes the branch that prompts for an option
\* (header.rs:41-48), and prompt_option reads the option's name
\* (header.rs:174-181).
PromptOption ==
  /\ pc = "hn_loop"
  /\ prompts < MaxOptions
  /\ asked < MaxFactors
  /\ \E name \in OptionNames :
       /\ po' = [name |-> name, is_first |-> TRUE, factors |-> <<>>,
                 total_key |-> <<>>]
       /\ dup' = (dup \/ name \in DOMAIN options)
       /\ added' = MapInsert(added, name, <<>>)
  /\ is_first' = FALSE
  /\ prompts' = prompts + 1
  /\ pc' = "po_loop"
  /\ UNCHANGED <<err, failed_at, rng, shorts, primary_key, stream_nonce,
                 options, asked, header, encryptor, tvars, evars, dvars>>

\* prompt_option's loop prompts for a factor (header.rs:184-194): the first
\* time always, then when the user confirms.  prompt_factor (header.rs:152-165)
\* offers the registry's names sorted and runs the chosen factor's create.
PromptFactor ==
  /\ pc = "po_loop"
  /\ asked < MaxFactors
  /\ \E idx \in 1..Len(SortedNames(Registry)) :
       LET name == SortedNames(Registry)[idx]
       IN \E made \in CreateOutcomes(name, RandomBlock(rng + 1)) :
            /\ rng' = IF name = "Passphrase" THEN rng ELSE rng + 1
            /\ IF made.ok
               THEN /\ po' = [po EXCEPT
                        !.is_first = FALSE,
                        !.factors = PushFactor(po.factors, name, made.data),
                        !.total_key = ExtendKey(po.total_key, made.key)]
                    /\ added' = [added EXCEPT ![po.name] =
                        Append(@, [name |-> name, data |-> made.data,
                                   key |-> made.key])]
                    /\ UNCHANGED <<pc, err, failed_at>>
               ELSE /\ pc' = "enc_err"
                    /\ err' = Error("factor failed", name)
                    /\ failed_at' = "create"
                    /\ UNCHANGED <<po, added>>
  /\ asked' = asked + 1
  /\ UNCHANGED <<shorts, primary_key, stream_nonce, is_first, options, prompts,
                 dup, header, encryptor, tvars, evars, dvars>>

\* The user adds no further factor: prompt_option wraps the primary key
\* (header.rs:201-220) and Header::new inserts the option (header.rs:49).
FinishOption ==
  /\ pc = "po_loop"
  /\ ~po.is_first
  /\ options' = MapInsert(options, po.name,
       WrapOption(primary_key, po.factors, po.total_key,
                  RandomBlock(rng + 1), RandomBlock(rng + 2)))
  /\ rng' = rng + 2
  /\ pc' = "hn_loop"
  /\ UNCHANGED <<err, failed_at, shorts, primary_key, stream_nonce, is_first,
                 prompts, asked, po, added, dup, header, encryptor, tvars,
                 evars, dvars>>

\* The user adds no further option: Header::new returns the header and the
\* encryptor (header.rs:50-58).
FinishHeader ==
  /\ pc = "hn_loop"
  /\ ~is_first
  /\ header' = [options |-> options, nonce |-> stream_nonce]
  /\ encryptor' = Stream(primary_key, stream_nonce)
  /\ pc' = "hn_done"
  /\ UNCHANGED <<err, failed_at, rng, shorts, primary_key, stream_nonce,
                 is_first, options, prompts, asked, po, added, dup, tvars,
                 evars, dvars>>

\* ------------------------------------------------- Header::to_decryptor

\* The header is not authenticated: what reaches to_decryptor is the header
\* as written, or one in which a factor's name was replaced by a name the
\* registry does not hold, or a sealed primary key was changed.
RenameFactor(h, o, i) ==
  [h EXCEPT !.options[o].factors[i] = <<UnknownFactor, @[2]>>]
GarbleKey(h, o) ==
  [h EXCEPT !.options[o].primary_key_ciphertext = Garbled(@)]
HeaderEdits(h) ==
  UNION {{RenameFactor(h, o, i) : i \in 1..Len(h.options[o].factors)}
         \cup {GarbleKey(h, o)} : o \in DOMAIN h.options}

\* The header goes to disk and comes back (to_bytes, from_file).
ShipHeader ==
  /\ pc = "hn_done"
  /\ dheader' \in {header} \cup HeaderEdits(header)
  /\ pc' = "td_select"
  /\ UNCHANGED <<err, failed_at, rng, shorts, hvars, sel, fi, total_key,
                 derived, kdf_in, decryptor, evars, dvars>>

\* The user chooses among the option names, sorted (header.rs:68-75).
SelectOption ==
  /\ pc = "td_select"
  /\ \E option_idx \in 1..Len(SortedNames(DOMAIN dheader.options)) :
       sel' = SortedNames(DOMAIN dheader.options)[option_idx]
  /\ fi' = 1
  /\ total_key' = <<>>
  /\ pc' = "td_factor"
  /\ UNCHANGED <<err, failed_at, rng, shorts, hvars, dheader, derived, kdf_in,
                 decryptor, evars, dvars>>

\* The key the factor at position i of option o was created with, when the
\* header still names that factor there.
MadeKey(o, i, name) ==
  IF o \in DOMAIN added /\ i <= Len(added[o]) /\ added[o][i].name = name
  THEN added[o][i].key
  ELSE OtherBlock

\* One turn of the loop over the option's factors (header.rs:79-87): the
\* registry lookup, then the factor's derive.
DeriveFactor ==
  /\ pc = "td_factor"
  /\ fi <= Len(dheader.options[sel].factors)
  /\ LET f == FactorAt(dheader.options[sel], fi)
     IN IF f[1] \notin Registry
        THEN /\ pc' = "dec_err"
             /\ err' = Error("unknown factor", f[1])
             /\ failed_at' = "lookup"
             /\ UNCHANGED <<fi, total_key, derived>>
        ELSE \E got \in DeriveOutcomes(f[1], MadeKey(sel, fi, f[1])) :
               /\ derived' = Append(derived, [name |-> f[1], key |-> got.key])
               /\ IF got.ok
                  THEN /\ total_key' = ExtendKey(total_key, got.key)
                       /\ fi' = fi + 1
                       /\ UNCHANGED <<pc, err, failed_at>>
                  ELSE /\ pc' = "dec_err"
                       /\ err' = Error("factor failed", f[1])
                       /\ failed_at' = "derive"
                       /\ UNCHANGED <<fi, total_key>>
  /\ UNCHANGED <<rng, shorts, hvars, dheader, sel, kdf_in, decryptor, evars,
                 dvars>>

\* map_err of the unwrap (header.rs:101).
UnwrapError == Error("decryption failed", "")

\* After the loop: the option key, the primary key, the decryptor
\* (header.rs:89-104).
UnwrapKey ==
  /\ pc = "td_factor"
  /\ fi > Len(dheader.options[sel].factors)
  /\ kdf_in' = total_key
  /\ LET opened == UnwrapOption(dheader.options[sel], total_key)
     IN IF opened.ok
        THEN /\ decryptor' = Stream(opened.pt, dheader.nonce)
             /\ pc' = "td_done"
             /\ UNCHANGED <<err, failed_at>>
        ELSE /\ pc' = "dec_err"
             /\ err' = UnwrapError
             /\ failed_at' = "unwrap"
             /\ UNCHANGED decryptor
  /\ UNCHANGED <<rng, shorts, hvars, dheader, sel, fi, total_key, derived,
                 evars, dvars>>

InitHeader == InitHeaderNew /\ InitToDecryptor /\ InitFileVars

NextHeader ==
  \/ PromptOption
  \/ PromptFactor
  \/ FinishOption
  \/ FinishHeader
  \/ ShipHeader
  \/ SelectOption
  \/ DeriveFactor
  \/ UnwrapKey

SpecHeader == InitHeader /\ [][NextHeader]_vars

\* -------------------------------------------------------- encrypt_file

\* The headers encrypt_file is run with: what Header::new returns when the
\* user sets up option "a" with one passphrase, and when the user adds an
\* option "b" with a keyfile.
PassOption(pk) ==
  WrapOption(pk, PushFactor(<<>>, "Passphrase", <<>>), <<112>>,
             RandomBlock(3), RandomBlock(4))
KeyfileOption(pk) ==
  WrapOption(pk, PushFactor(<<>>, "Keyfile", <<>>), RandomBlock(5),
             RandomBlock(6), RandomBlock(7))
BuiltOptions ==
  {MapInsert(EmptyMap, "a", PassOption(RandomBlock(1))),
   MapInsert(MapInsert(EmptyMap, "a", PassOption(RandomBlock(1))),
             "b", KeyfileOption(RandomBlock(1)))}
BuiltAdded(opts) ==
  [o \in DOMAIN opts |->
     IF o = "a"
     THEN <<[name |-> "Passphrase", data |-> <<>>, key |-> <<112>>]>>
     ELSE <<[name |-> "Keyfile", data |-> <<>>, key |-> RandomBlock(5)]>>]

\* The lengths of the input file: around every multiple of the buffer size,
\* and around the length whose ciphertext fills one buffer.
PayloadLens ==
  {k * BUF_SIZE + d :
     k \in 0..MaxChunks,
     d \in {0, 1, BUF_SIZE - TAG_SIZE, BUF_SIZE - TAG_SIZE + 1, BUF_SIZE - 1}}

InputBytes == Bytes("P", 0, payload)

InitFile ==
  /\ pc = "hn_done"
  /\ err = NoErr
  /\ failed_at = ""
  /\ primary_key = RandomBlock(1)
  /\ stream_nonce = RandomBlock(2)
  /\ is_first = FALSE
  /\ options \in BuiltOptions
  /\ rng = IF "b" \in DOMAIN options THEN 7 ELSE 4
  /\ prompts = Cardinality(DOMAIN options)
  /\ asked = Cardinality(DOMAIN options)
  /\ po = NoPo
  /\ added = BuiltAdded(options)
  /\ dup = FALSE
  /\ header = [options |-> options, nonce |-> stream_nonce]
  /\ encryptor = Stream(primary_key, stream_nonce)
  /\ InitToDecryptor
  /\ payload \in PayloadLens
  /\ in_pos = 0
  /\ buffer = <<>>
  /\ output = <<>>
  /\ sealed = <<>>
  /\ enc_calls = <<>>
  /\ shorts = 0
  /\ disk = [hdr |-> [len |-> 0, body |-> NoHeader, good |-> FALSE],
             avail |-> 0, body |-> <<>>]
  /\ edit = ""
  /\ alloc = 0
  /\ d_pos = 0
  /\ plain = <<>>
  /\ dec_calls = <<>>
  /\ created = {}

\* Header::new returned Err (header.rs:48): the user named the first option
\* "a" and chose a keyfile, whose create failed.
CreateFailed ==
  /\ pc = "enc_err"
  /\ err = Error("factor failed", "Keyfile")
  /\ failed_at = "create"
  /\ rng = 3
  /\ primary_key = RandomBlock(1)
  /\ stream_nonce = RandomBlock(2)
  /\ is_first = FALSE
  /\ options = EmptyMap
  /\ prompts = 1
  /\ asked = 1
  /\ po = [NoPo EXCEPT !.name = "a"]
  /\ added = MapInsert(EmptyMap, "a", <<>>)
  /\ dup = FALSE
  /\ header = NoHeader
  /\ encryptor = NoStream

\* main after a failed Header::new, for every input file.
InitFileFailed ==
  /\ CreateFailed
  /\ InitToDecryptor
  /\ payload \in PayloadLens
  /\ in_pos = 0
  /\ buffer = <<>>
  /\ output = <<>>
  /\ sealed = <<>>
  /\ enc_calls = <<>>
  /\ shorts = 0
  /\ disk = [hdr |-> [len |-> 0, body |-> NoHeader, good |-> FALSE],
             avail |-> 0, body |-> <<>>]
  /\ edit = ""
  /\ alloc = 0
  /\ d_pos = 0
  /\ plain = <<>>
  /\ dec_calls = <<>>
  /\ created = {}

\* Header::to_bytes (header.rs:109-118): the length, then the header.
HeaderBytes(h) == Bytes("H", 0, PREFIX_SIZE + HeaderLen(h))

\* The branch of the loop (file.rs:40, file.rs:80).
Branch(bytes_left) == IF bytes_left > BUF_SIZE THEN "next" ELSE "last"

\* What input.read(&mut buffer) may return when `most` bytes can be read:
\* all of them or, MaxShortReads times in a loop, fewer (at least one, as
\* the file has not ended).
ReadSizes(most, used) ==
  {most} \cup
  (IF used < MaxShortReads THEN {n \in {1, most - 1} : 0 < n /\ n < most}
   ELSE {})

\* input.read(&mut buffer) (file.rs:41, 47, 81, 87): n bytes of the file from
\* pos on replace the buffer's first n bytes; the rest of the buffer stays.
ReadInto(buf, file, pos, n) == Cat(Slice(file, pos, n), Drop(buf, n))

\* What is handed to the stream (file.rs:43, 49, 83, 89): the whole buffer
\* for a chunk that is not the last, the bytes read for the last.
Handed(kind, buf, read) == IF kind = "next" THEN buf ELSE Take(buf, read)

\* (mutant) The loop without its break.
EncNextPcNoBreak(kind) == "enc_loop"

\* After encrypt_last the loop breaks (file.rs:53).
EncNextPc(kind) == IF kind = "last" THEN "enc_done" ELSE "enc_loop"

\* The output of encrypt_file and of decrypt_file (file.rs:24-28, 67-71):
\* the file File::create makes, or truncates, at the output path, or stdout
\* when no path is given.  File::create may fail, and then makes nothing.
Dests == {"path", "stdout"}
Created(made, command, dest, io) ==
  IF dest = "path" /\ io # "create" THEN made \cup {command} ELSE made

\* main calls encrypt_file when Header::new has returned Ok (main.rs:18-19).
EncryptFileCalled(at) == at = "hn_done"

\* encrypt_file up to its loop (file.rs:24-35): the output is created, the
\* header written, the input opened.
EncOpen ==
  /\ EncryptFileCalled(pc)
  /\ \E dest \in Dests, io \in {"ok", "create", "open"} :
       /\ io = "create" => dest = "path"
       /\ created' = Created(created, "encrypt", dest, io)
       /\ output' = IF io = "create" THEN <<>> ELSE HeaderBytes(header)
       /\ pc' = IF io = "ok" THEN "enc_loop" ELSE "enc_err"
       /\ err' = IF io = "ok" THEN NoErr ELSE Error("io", io)
       /\ failed_at' = IF io = "ok" THEN "" ELSE "io"
  /\ buffer' = Bytes("Z", 0, BUF_SIZE)
  /\ in_pos' = 0
  /\ shorts' = 0
  /\ UNCHANGED <<rng, hvars, tvars, payload, sealed, enc_calls, dvars>>

\* One turn of encrypt_file's loop (file.rs:36-55).
EncryptChunk ==
  /\ pc = "enc_loop"
  /\ LET bytes_left == payload - in_pos
         kind == Branch(bytes_left)
         most == Min(BUF_SIZE, bytes_left)
     IN \E n \in ReadSizes(most, shorts) :
          LET buf == ReadInto(buffer, InputBytes, in_pos, n)
              chunk == StreamSeal(encryptor, kind = "last", Handed(kind, buf, n))
          IN /\ buffer' = buf
             /\ in_pos' = in_pos + n
             /\ shorts' = IF n < most THEN shorts + 1 ELSE shorts
             /\ sealed' = Append(sealed, chunk)
             /\ output' = Cat(output, SealedBytes(Len(sealed) + 1, chunk))
             /\ enc_calls' = Append(enc_calls,
                               [kind |-> kind, len |-> BLen(chunk.pt)])
             /\ encryptor' = [encryptor EXCEPT !.ctr = @ + 1]
             /\ pc' = EncNextPc(kind)
  /\ UNCHANGED <<err, failed_at, rng, primary_key, stream_nonce, is_first,
                 options, prompts, asked, po, added, dup, header, tvars,
                 payload, created, dvars>>

\* ------------------------------------------------- the file on its way

\* The size above which the specification wants a declared header length
\* refused (16 MiB).
HeaderCap == 16 * 1024 * 1024

RECURSIVE CatChunks(_, _)
CatChunks(ids, chunks) ==
  IF ids = <<>> THEN <<>>
  ELSE Cat(SealedBytes(Head(ids), chunks[Head(ids)]),
           CatChunks(Tail(ids), chunks))

Swapped(n, i) ==
  [j \in 1..n |-> IF j = i THEN i + 1 ELSE IF j = i + 1 THEN i ELSE j]

\* Where a ciphertext of n bytes is cut, and where a byte of it is changed.
CutPoints(n) ==
  {c \in {0, 1, BUF_SIZE, BUF_SIZE + TAG_SIZE, n - TAG_SIZE, n - 1} :
     0 <= c /\ c < n}
AlterPoints(n) ==
  {a \in {0, BUF_SIZE + TAG_SIZE, n - 1} : 0 <= a /\ a < n}

Altered(ct, a) ==
  Cat(Cat(Take(ct, a), Bytes("J", 0, 1)), Drop(ct, a + 1))

\* The file encrypt_file wrote: the header blob, whole, and the ciphertext.
Written ==
  [hdr |-> [len |-> HeaderLen(header), body |-> header, good |-> TRUE],
   avail |-> PREFIX_SIZE + HeaderLen(header),
   body |-> Drop(output, PREFIX_SIZE + HeaderLen(header))]

\* The files decrypt may be given in its place, by what was done to it.
Shipped(how) ==
  LET w == Written
      n == BLen(w.body)
  IN CASE how = "none" -> {w}
       [] how = "truncate" -> {[w EXCEPT !.body = Take(@, c)] : c \in CutPoints(n)}
       [] how = "alter" -> {[w EXCEPT !.body = Altered(@, a)] : a \in AlterPoints(n)}
       [] how = "reorder" ->
            {[w EXCEPT !.body = CatChunks(Swapped(Len(sealed), i), sealed)] :
               i \in 1..(Len(sealed) - 1)}
       [] how = "nonce" -> {[w EXCEPT !.hdr.body.nonce = OtherBlock]}
       [] how = "header" -> {[w EXCEPT !.hdr.body = h] : h \in HeaderEdits(header)}
       [] how = "prefix_cut" -> {[w EXCEPT !.avail = PREFIX_SIZE - 1, !.body = <<>>]}
       [] how = "header_cut" -> {[w EXCEPT !.avail = @ - 1, !.body = <<>>]}
       [] how = "garbage" -> {[w EXCEPT !.hdr.good = FALSE]}
       [] how = "padded" ->
            {[w EXCEPT !.hdr.len = HeaderCap + 1,
                       !.avail = PREFIX_SIZE + HeaderCap + 1]}
       [] OTHER -> {[w EXCEPT !.hdr.len = HeaderCap + 1]}

Edits ==
  {"none", "truncate", "alter", "reorder", "nonce", "header", "prefix_cut",
   "header_cut", "garbage", "padded", "length"}

\* Between the two runs of main the file is stored, and perhaps changed.
ShipFile ==
  /\ pc = "enc_done"
  /\ \E how \in Edits :
       /\ edit' = how
       /\ disk' \in Shipped(how)
  /\ pc' = "from_file"
  /\ UNCHANGED <<err, failed_at, rng, shorts, hvars, tvars, evars, alloc,
                 d_pos, plain, dec_calls>>

\* ---------------------------------------------------- Header::from_file

FileSize(f) == f.avail + BLen(f.body)

\* Header::from_file (header.rs:122-134): read_exact of the eight length
\* bytes, a vec of the declared length, read_exact into it, deserialize.
FromFile ==
  /\ pc = "from_file"
  /\ IF disk.avail < PREFIX_SIZE
     THEN /\ pc' = "dec_err"
          /\ err' = Error("io", "failed to fill whole buffer")
          /\ failed_at' = "from_file"
          /\ UNCHANGED <<alloc, dheader, d_pos>>
     ELSE /\ alloc' = disk.hdr.len
          /\ IF disk.avail < PREFIX_SIZE + disk.hdr.len
             THEN /\ pc' = "dec_err"
                  /\ err' = Error("io", "failed to fill whole buffer")
                  /\ failed_at' = "from_file"
                  /\ UNCHANGED <<dheader, d_pos>>
             ELSE IF ~disk.hdr.good
             THEN /\ pc' = "dec_err"
                  /\ err' = Error("bincode", "")
                  /\ failed_at' = "from_file"
                  /\ d_pos' = PREFIX_SIZE + disk.hdr.len
                  /\ UNCHANGED dheader
             ELSE /\ pc' = "td_select"
                  /\ dheader' = disk.hdr.body
                  /\ d_pos' = PREFIX_SIZE + disk.hdr.len
                  /\ UNCHANGED <<err, failed_at>>
  /\ UNCHANGED <<rng, shorts, hvars, sel, fi, total_key, derived, kdf_in,
                 decryptor, evars, disk, edit, plain, dec_calls>>

\* -------------------------------------------------------- decrypt_file

\* (mutant) The loop with the stream's errors dropped.
DecNextPcLenient(kind, ok) == IF kind = "last" THEN "dec_done" ELSE "dec_loop"

\* The errors of the loop end decrypt_file, decrypt_last ends the loop
\* (file.rs:84, 90, 93).
DecNextPc(kind, ok) ==
  IF ~ok THEN "dec_err" ELSE IF kind = "last" THEN "dec_done" ELSE "dec_loop"

\* map_err of the loop (file.rs:84, 90).
ChunkError == Error("encryption failed", "")

\* (mutant) main without the ? on from_file and to_decryptor.
DecryptFileCalledAnyway(at) == at \in {"td_done", "dec_err"}

\* main calls decrypt_file when Header::from_file and to_decryptor have
\* returned Ok (main.rs:27-29).
DecryptFileCalled(at) == at = "td_done"

\* decrypt_file up to its loop (file.rs:67-75).
DecOpen ==
  /\ DecryptFileCalled(pc)
  /\ \E dest \in Dests, io \in {"ok", "create"} :
       /\ io = "create" => dest = "path"
       /\ created' = Created(created, "decrypt", dest, io)
       /\ pc' = IF io = "ok" THEN "dec_loop" ELSE "dec_err"
       /\ err' = IF io = "ok" THEN NoErr ELSE Error("io", io)
       /\ failed_at' = IF io = "ok" THEN "" ELSE "io"
  /\ buffer' = Bytes("Z", 0, BUF_SIZE)
  /\ plain' = <<>>
  /\ shorts' = 0
  /\ UNCHANGED <<rng, hvars, tvars, payload, in_pos, output, sealed, enc_calls,
                 disk, edit, alloc, d_pos, dec_calls>>

\* One turn of decrypt_file's loop (file.rs:76-95).
DecryptChunk ==
  /\ pc = "dec_loop"
  /\ LET bytes_left == FileSize(disk) - d_pos
         kind == Branch(bytes_left)
         most == Min(BUF_SIZE, bytes_left)
     IN \E n \in ReadSizes(most, shorts) :
          LET buf == ReadInto(buffer, disk.body, d_pos - disk.avail, n)
              piece == Handed(kind, buf, n)
              opened == StreamOpen(decryptor, kind = "last", piece, sealed)
          IN /\ buffer' = buf
             /\ d_pos' = d_pos + n
             /\ shorts' = IF n < most THEN shorts + 1 ELSE shorts
             /\ dec_calls' = Append(dec_calls,
                  [kind |-> kind, len |-> BLen(piece), ok |-> opened.ok])
             /\ plain' = IF opened.ok THEN Cat(plain, opened.pt) ELSE plain
             /\ decryptor' = [decryptor EXCEPT !.ctr = @ + 1]
             /\ pc' = DecNextPc(kind, opened.ok)
             /\ err' = IF opened.ok THEN err ELSE ChunkError
             /\ failed_at' = IF opened.ok THEN failed_at ELSE kind
  /\ UNCHANGED <<rng, hvars, dheader, sel, fi, total_key, derived, kdf_in,
                 payload, in_pos, output, sealed, enc_calls, created, disk,
                 edit, alloc>>

NextFile ==
  \/ EncOpen
  \/ EncryptChunk
  \/ ShipFile
  \/ FromFile
  \/ SelectOption
  \/ DeriveFactor
  \/ UnwrapKey
  \/ DecOpen
  \/ DecryptChunk

SpecFile == (InitFile \/ InitFileFailed) /\ [][NextFile]_vars

\* ------------------------------------------------------------- claims

RECURSIVE KeysOf(_)
KeysOf(log) == IF log = <<>> THEN <<>> ELSE Head(log).key \o KeysOf(Tail(log))

RECURSIVE PlainOf(_)
PlainOf(chunks) ==
  IF chunks = <<>> THEN <<>> ELSE Cat(Head(chunks).pt, PlainOf(Tail(chunks)))

\* The name and data of the factors the user added, in the order added.
Stored(log) == [i \in 1..Len(log) |-> <<log[i].name, log[i].data>>]

\* to_decryptor reached its unwrap step (header.rs:95-101).
Unwrapped == sel # "" /\ (failed_at = "unwrap" \/ decryptor # NoStream)

\* decrypt_file ran its loop to an end.
Decrypted == pc = "dec_done" \/ failed_at \in {"next", "last"}

\* C1: a file encrypt_file wrote for payload P (the chunks it sealed are P, in
\* order), decrypted unchanged with the decryptor of the same primary key and
\* stream nonce, decrypts without error to exactly P (stated here for the runs
\* of decrypt_file in which every read returned all the bytes asked for).
C1_RoundTrip ==
  (/\ Decrypted
   /\ edit = "none"
   /\ PlainOf(sealed) = InputBytes
   /\ shorts = 0
   /\ decryptor.key = primary_key
   /\ decryptor.nonce = stream_nonce)
  => (pc = "dec_done" /\ plain = InputBytes)

\* C2: in the header Header::new returns, every option's sealed primary key
\* opens, under the keys its factors were created with (in stored order) and
\* its salt, to the one primary key; and to_decryptor, given those keys for
\* the option chosen, returns the decryptor of the encryptor's key and nonce.
C2_OptionIndependence ==
  /\ header # NoHeader =>
       \A o \in DOMAIN header.options :
         UnwrapOption(header.options[o], KeysOf(added[o]))
           = [ok |-> TRUE, pt |-> primary_key]
  /\ (/\ Unwrapped
      /\ dheader = header
      /\ Len(derived) = Len(added[sel])
      /\ \A i \in 1..Len(derived) : derived[i].key = added[sel][i].key)
     => (/\ pc = "td_done"
         /\ decryptor.key = primary_key
         /\ decryptor.nonce = stream_nonce
         /\ decryptor = encryptor)

C2_Witness ==
  /\ pc = "td_done"
  /\ dheader = header
  /\ DOMAIN header.options = {"a", "b"}
  /\ sel = "b"
  /\ Len(added["a"]) = 2
  /\ decryptor = encryptor

\* C3: a payload ciphertext that was truncated, altered or reordered is never
\* decrypted with success; decrypt_file succeeds only through a decrypt_last
\* that succeeded, on the piece that ends the file.
C3_TamperDetected ==
  /\ edit \in {"truncate", "alter", "reorder"} => pc # "dec_done"
  /\ pc = "dec_done" =>
       /\ dec_calls # <<>>
       /\ dec_calls[Len(dec_calls)].kind = "last"
       /\ dec_calls[Len(dec_calls)].ok
       /\ d_pos = FileSize(disk)

C3_Witness ==
  /\ edit = "truncate"
  /\ BLen(Written.body) <= BUF_SIZE
  /\ BLen(disk.body) = BLen(Written.body) - 1
  /\ shorts = 0
  /\ pc = "dec_err"
  /\ failed_at = "last"

\* C4: when the option chosen lists a factor the registry does not hold, at
\* whatever position, to_decryptor fails with the unknown-factor error naming
\* it, and no factor's derive was called before.
C4_UnknownFactorFirst ==
  (/\ pc \in {"td_done", "dec_err"}
   /\ sel # ""
   /\ \E i \in 1..Len(dheader.options[sel].factors) :
        dheader.options[sel].factors[i][1] \notin Registry)
  => (/\ err.msg = "unknown factor"
      /\ err.arg \notin Registry
      /\ derived = <<>>)

\* C5: for a payload of 4096*k bytes encrypt_file writes
\* 8 + header_len + k*(4096+16) bytes, every call on the encryptor giving its
\* input's length and a 16-byte tag; for k = 1 by one encrypt_last.  Stated
\* for k in 1..3: for k = 0 the sum counts no tag, and the one encrypt_last
\* of an empty input gives one (C6).
C5_BoundaryLength ==
  (pc = "enc_done" /\ payload \in {BUF_SIZE * k : k \in 1..3})
  => (/\ BLen(output) = PREFIX_SIZE + HeaderLen(header)
                        + (payload \div BUF_SIZE) * (BUF_SIZE + TAG_SIZE)
      /\ payload = BUF_SIZE =>
           enc_calls = <<[kind |-> "last", len |-> BUF_SIZE]>>)

\* C6: encrypt_last is the last call on the encryptor and is made once: none
\* while the loop runs, one when it has ended, also for an empty input, whose
\* encrypt_last is given no byte and gives a tag.
C6_LastOnce ==
  /\ \A i \in 1..Len(enc_calls) :
       enc_calls[i].kind = "last" => i = Len(enc_calls)
  /\ pc = "enc_loop" => \A i \in 1..Len(enc_calls) : enc_calls[i].kind = "next"
  /\ pc \notin {"hn_done", "enc_loop", "enc_err"} =>
       /\ enc_calls # <<>>
       /\ enc_calls[Len(enc_calls)].kind = "last"
       /\ Len(sealed) = Len(enc_calls)
       /\ payload = 0 =>
            /\ enc_calls = <<[kind |-> "last", len |-> 0]>>
            /\ BLen(output) = PREFIX_SIZE + HeaderLen(header) + TAG_SIZE

C6_Witness ==
  /\ pc = "enc_done"
  /\ payload = 0
  /\ enc_calls = <<[kind |-> "last", len |-> 0]>>
  /\ Drop(output, PREFIX_SIZE + HeaderLen(header)) = Bytes("C", 1, TAG_SIZE)

\* C7: once the user has given an option a name an earlier option of the
\* header has, Header::new returns no header.
C7_DuplicateNameRejected == dup => header = NoHeader

\* C8: when the length prefix declares more than the cap, Header::from_file
\* fails, and has allocated nothing for the header.
C8_OversizeRefused ==
  (/\ edit # ""
   /\ pc # "from_file"
   /\ disk.avail >= PREFIX_SIZE
   /\ disk.hdr.len > HeaderCap)
  => (failed_at = "from_file" /\ alloc = 0)

\* C9: a failure to open the sealed primary key and a failure to open a chunk
\* of the payload are the same error.
C9_SameError ==
  failed_at \in {"unwrap", "next", "last"} => err = UnwrapError

\* C10: the factors a header stores for an option are those the user added,
\* in the order added, and so is the key prompt_option gives Argon2; and
\* to_decryptor derives the factors in the stored order and gives Argon2 the
\* keys derived, joined in that order.
C10_FactorOrder ==
  /\ pc = "po_loop" =>
       /\ po.factors = Stored(added[po.name])
       /\ po.total_key = KeysOf(added[po.name])
  /\ header # NoHeader =>
       \A o \in DOMAIN header.options :
         /\ header.options[o].factors = Stored(added[o])
         /\ header.options[o].primary_key_ciphertext.k
              = Argon2(KeysOf(added[o]), header.options[o].salt)
  /\ sel # "" =>
       /\ Len(derived) <= Len(dheader.options[sel].factors)
       /\ \A i \in 1..Len(derived) :
            derived[i].name = dheader.options[sel].factors[i][1]
  /\ Unwrapped =>
       /\ Len(derived) = Len(dheader.options[sel].factors)
       /\ kdf_in = KeysOf(derived)

C10_Witness ==
  /\ pc = "td_done"
  /\ dheader = header
  /\ Len(derived) = 2
  /\ derived[1].name = "Passphrase"
  /\ derived[2].name = "Keyfile"
  /\ kdf_in = KeysOf(added[sel])

\* C11: decrypt_file frames the ciphertext as encrypt_file wrote it.  On the
\* file as written, read without short reads, every piece given to
\* decrypt_next is 4096 + 16 bytes long, the piece given to decrypt_last is
\* at most that long, and the i-th piece is as long as the i-th chunk
\* encrypt_file wrote.
C11_SymmetricFraming ==
  (/\ edit = "none"
   /\ pc \in {"dec_loop", "dec_done", "dec_err"}
   /\ shorts = 0
   /\ PlainOf(sealed) = InputBytes)
  => \A i \in 1..Len(dec_calls) :
       /\ dec_calls[i].kind = "next" => dec_calls[i].len = BUF_SIZE + TAG_SIZE
       /\ dec_calls[i].len <= BUF_SIZE + TAG_SIZE
       /\ i <= Len(sealed)
       /\ dec_calls[i].len = BLen(SealedBytes(i, sealed[i]))

\* C12: encrypt_file reads exact chunks.  The i-th call, when it is an
\* encrypt_next, is given bytes (i-1)*4096 .. i*4096 of the input; while the
\* loop runs the position is 4096 times the number of calls made; and when
\* the loop has ended the plaintexts given to the encryptor, joined in
\* order, are the input file.
C12_ExactChunkReads ==
  /\ \A i \in 1..Len(enc_calls) :
       enc_calls[i].kind = "next"
         => sealed[i].pt = Slice(InputBytes, (i - 1) * BUF_SIZE, BUF_SIZE)
  /\ pc = "enc_loop" => in_pos = BUF_SIZE * Len(enc_calls)
  /\ pc \notin {"hn_done", "enc_loop", "enc_err"}
       => PlainOf(sealed) = InputBytes

\* C13: the output file is made last.  While main has failed in
\* Header::from_file, in the factor lookup, in a factor's derive or in the
\* unwrap of the primary key, decrypt's output path has not been created;
\* whenever it has been created, a header was parsed and to_decryptor
\* returned a decryptor.  While main has failed in a factor's create,
\* encrypt's output path has not been created and no byte was written;
\* whenever it has been created or a byte written, Header::new returned a
\* header and an encryptor.
C13_CreatedLast ==
  /\ failed_at \in {"from_file", "lookup", "derive", "unwrap"}
       => "decrypt" \notin created
  /\ "decrypt" \in created => (dheader # NoHeader /\ decryptor.key # <<>>)
  /\ failed_at = "create" => ("encrypt" \notin created /\ output = <<>>)
  /\ ("encrypt" \in created \/ output # <<>>)
       => (header # NoHeader /\ encryptor.key # <<>>)

\* decrypt ended in the unwrap of the primary key, after encrypt had made
\* its output file: decrypt's output path is untouched.
C13_Witness ==
  /\ pc = "dec_err"
  /\ failed_at = "unwrap"
  /\ "encrypt" \in created
  /\ "decrypt" \notin created

====
